---------------------------- MODULE Spec2Model ----------------------------
(***************************************************************************)
(* Model of src/exel.py: a Streamlit page that combines uploaded Excel     *)
(* files with pandas, shows the result in an editable AgGrid and offers    *)
(* the grid's table as a download.                                         *)
(*                                                                         *)
(* Two specifications:                                                     *)
(*   SpecCombine  one call of combine_excel_files, stepped statement by    *)
(*                statement, on every argument within the bounds;          *)
(*   Spec         the page: every user interaction followed by the whole   *)
(*                script rerun (main) that Streamlit triggers for it.      *)
(*                                                                         *)
(* Cell values are opaque: pandas moves them around by label and position  *)
(* and never looks inside them, so a parsed file carries in each cell a    *)
(* token naming the file, the row and the column it came from.  Dtypes are *)
(* not modelled.                                                           *)
(***************************************************************************)
EXTENDS Integers, Sequences, FiniteSets, TLC

VARIABLES frame, uploaded_files, grid_value, page, event, edited, downloaded

vars == <<frame, uploaded_files, grid_value, page, event, edited, downloaded>>

appVars == <<uploaded_files, grid_value, page, event, edited, downloaded>>

-----------------------------------------------------------------------------
(* Bounds                                                                  *)

\* longest sequence of uploaded files
MaxFiles == 2

\* most data rows in one file
MaxRows == 2

-----------------------------------------------------------------------------
(* Values                                                                  *)

Range(s) == {s[k] : k \in 1..Len(s)}

\* Python's None
None == [kind |-> "None"]

\* pandas' missing value
NaN == [nan |-> TRUE]

\* the content of the cell of file `name` at data row i (0-based), column c
Cell(name, i, c) == [file |-> name, row |-> i, col |-> c]

FileNames == {"a.xlsx", "b.xlsx"}

\* header rows of the files (read_excel makes the labels of one file distinct)
ColumnLists ==
    { <<>>, <<"Name", "Age">>, <<"Name", "City">>, <<"City", "Name">> }

\* what read_excel raises on a file that is no spreadsheet
Causes == {"File is not a zip file"}

\* files read_excel can parse: a header row and nrows data rows under it
GoodFiles ==
    { f \in [name : FileNames, columns : ColumnLists, nrows : 0..MaxRows] :
        f.columns = <<>> => f.nrows = 0 }

\* files read_excel raises on
BadFiles == [name : FileNames, cause : Causes]

Files == GoodFiles \cup BadFiles

Parseable(f) == "columns" \in DOMAIN f

RECURSIVE SeqsUpTo(_, _)
SeqsUpTo(S, n) ==
    IF n = 0 THEN {<<>>}
    ELSE LET shorter == SeqsUpTo(S, n - 1)
         IN  shorter \cup {Append(s, x) : s \in {t \in shorter : Len(t) = n - 1}, x \in S}

\* the arguments of combine_excel_files / the values of the file uploader
FileLists == SeqsUpTo(Files, MaxFiles)

-----------------------------------------------------------------------------
(* pandas                                                                  *)

\* a DataFrame: column labels in order, row labels in order, one row of
\* cells (a function of the column label) per row label
DataFrame(columns, index, data) ==
    [kind |-> "DataFrame", columns |-> columns, index |-> index, data |-> data]

RangeIndex(n) == [k \in 1..n |-> k - 1]

\* pd.read_excel on a parseable file: first row is the header, default index
read_excel(f) ==
    DataFrame(f.columns,
              RangeIndex(f.nrows),
              [k \in 1..f.nrows |->
                  [c \in Range(f.columns) |-> Cell(f.name, k - 1, c)]])

\* the labels of `more` that `seen` lacks, appended to `seen` in their order
RECURSIVE AppendNew(_, _)
AppendNew(seen, more) ==
    IF more = <<>> THEN seen
    ELSE AppendNew(IF Head(more) \in Range(seen) THEN seen
                   ELSE Append(seen, Head(more)),
                   Tail(more))

\* union_columns as join='inner' would have it: the first frame's labels that
\* every frame has
union_columns_inner(dfs) ==
    IF dfs = <<>> THEN <<>>
    ELSE SelectSeq(dfs[1].columns,
                   LAMBDA c : \A k \in 1..Len(dfs) : c \in Range(dfs[k].columns))

\* the outer join of the column labels, unsorted: order of first appearance
RECURSIVE union_columns(_)
union_columns(dfs) ==
    IF dfs = <<>> THEN <<>>
    ELSE AppendNew(union_columns(SubSeq(dfs, 1, Len(dfs) - 1)),
                   dfs[Len(dfs)].columns)

\* a row re-indexed to `columns`: NaN where the row has no such label
Reindex(row, columns) ==
    [c \in Range(columns) |-> IF c \in DOMAIN row THEN row[c] ELSE NaN]

RECURSIVE stack_rows(_, _)
stack_rows(dfs, columns) ==
    IF dfs = <<>> THEN <<>>
    ELSE LET df == Head(dfs)
         IN  [k \in 1..Len(df.data) |-> Reindex(df.data[k], columns)]
                 \o stack_rows(Tail(dfs), columns)

RECURSIVE stack_index(_)
stack_index(dfs) ==
    IF dfs = <<>> THEN <<>> ELSE Head(dfs).index \o stack_index(Tail(dfs))

\* pd.concat(dfs, ignore_index=...) along axis 0 with join='outer'
pd_concat(dfs, ignore_index) ==
    LET columns == union_columns(dfs)
        data    == stack_rows(dfs, columns)
    IN  DataFrame(columns,
                  IF ignore_index THEN RangeIndex(Len(data)) ELSE stack_index(dfs),
                  data)

-----------------------------------------------------------------------------
(* combine_excel_files                                                     *)

\* the frame of a call: the argument, the position in the for loop (i is the
\* next file), the locals, the st.error messages issued, the read_excel
\* calls made (positions of the files, in call order) and the return value
Call(files) ==
    [uploaded_files |-> files, pc |-> "for", i |-> 1, all_dfs |-> <<>>,
     errors |-> <<>>, reads |-> <<>>, ret |-> None]

\* f"Error reading {uploaded_file.name}: {str(e)}"
ErrorMessage(f) == <<"Error reading ", f.name, ": ", f.cause>>

\* ReadExcelOk with `all_dfs = [df]` in place of all_dfs.append(df)
ReadExcelOk_keep_last(fr) ==
    [fr EXCEPT !.all_dfs = <<read_excel(fr.uploaded_files[fr.i])>>,
               !.reads = Append(@, fr.i),
               !.i = @ + 1]

\* ReadExcelOk with all_dfs.insert(0, df) in place of all_dfs.append(df)
ReadExcelOk_prepend(fr) ==
    [fr EXCEPT !.all_dfs = <<read_excel(fr.uploaded_files[fr.i])>> \o @,
               !.reads = Append(@, fr.i),
               !.i = @ + 1]

\* try: df = pd.read_excel(uploaded_file); all_dfs.append(df)
ReadExcelOk(fr) ==
    [fr EXCEPT !.all_dfs = Append(@, read_excel(fr.uploaded_files[fr.i])),
               !.reads = Append(@, fr.i),
               !.i = @ + 1]

\* ReadExcelFail with `break` in place of `return None`: what parsed so far
\* is combined
ReadExcelFail_break(fr) ==
    [fr EXCEPT !.reads = Append(@, fr.i),
               !.errors = Append(@, ErrorMessage(fr.uploaded_files[fr.i])),
               !.i = Len(fr.uploaded_files) + 1]

\* ReadExcelFail with `continue` in place of `return None`: the file is
\* skipped and the loop goes on
ReadExcelFail_continue(fr) ==
    [fr EXCEPT !.reads = Append(@, fr.i),
               !.errors = Append(@, ErrorMessage(fr.uploaded_files[fr.i])),
               !.i = @ + 1]

\* except Exception as e: st.error(...); return None
ReadExcelFail(fr) ==
    [fr EXCEPT !.reads = Append(@, fr.i),
               !.errors = Append(@, ErrorMessage(fr.uploaded_files[fr.i])),
               !.ret = None,
               !.pc = "done"]

\* ReturnNone with `return pd.DataFrame()` in place of `return None`
ReturnNone_empty_frame(fr) ==
    [fr EXCEPT !.ret = DataFrame(<<>>, <<>>, <<>>), !.pc = "done"]

\* if not all_dfs: return None
ReturnNone(fr) == [fr EXCEPT !.ret = None, !.pc = "done"]

\* ReturnCombined without ignore_index=True
ReturnCombined_keep_index(fr) ==
    [fr EXCEPT !.ret = pd_concat(fr.all_dfs, FALSE), !.pc = "done"]

\* combined_df = pd.concat(all_dfs, ignore_index=True); return combined_df
ReturnCombined(fr) == [fr EXCEPT !.ret = pd_concat(fr.all_dfs, TRUE), !.pc = "done"]

InLoop(fr) == fr.pc = "for" /\ fr.i <= Len(fr.uploaded_files)

AfterLoop(fr) == fr.pc = "for" /\ fr.i > Len(fr.uploaded_files)

\* the next statement of the call
Step(fr) ==
    IF InLoop(fr)
    THEN IF Parseable(fr.uploaded_files[fr.i]) THEN ReadExcelOk(fr) ELSE ReadExcelFail(fr)
    ELSE IF fr.all_dfs = <<>> THEN ReturnNone(fr) ELSE ReturnCombined(fr)

RECURSIVE Run(_)
Run(fr) == IF fr.pc = "done" THEN fr ELSE Run(Step(fr))

\* the finished call: .ret is the return value, .errors what st.error showed
combine_excel_files(files) == Run(Call(files))

-----------------------------------------------------------------------------
(* SpecCombine: one call, statement by statement                           *)

IdlePage ==
    [placeholder |-> TRUE, file_list |-> <<>>, combine_button |-> FALSE,
     errors |-> <<>>, grid |-> None, metrics |-> None, download |-> None]

AppIdle ==
    /\ uploaded_files = <<>>
    /\ grid_value = None
    /\ page = IdlePage
    /\ event = "start"
    /\ edited = None
    /\ downloaded = None

InitCombine ==
    /\ frame \in {Call(files) : files \in FileLists}
    /\ AppIdle

ReadOk ==
    /\ InLoop(frame)
    /\ Parseable(frame.uploaded_files[frame.i])
    /\ frame' = ReadExcelOk(frame)
    /\ UNCHANGED appVars

ReadFail ==
    /\ InLoop(frame)
    /\ ~Parseable(frame.uploaded_files[frame.i])
    /\ frame' = ReadExcelFail(frame)
    /\ UNCHANGED appVars

NoFrames ==
    /\ AfterLoop(frame)
    /\ frame.all_dfs = <<>>
    /\ frame' = ReturnNone(frame)
    /\ UNCHANGED appVars

Concat ==
    /\ AfterLoop(frame)
    /\ frame.all_dfs # <<>>
    /\ frame' = ReturnCombined(frame)
    /\ UNCHANGED appVars

NextCombine == ReadOk \/ ReadFail \/ NoFrames \/ Concat

SpecCombine == InitCombine /\ [][NextCombine]_vars


-----------------------------------------------------------------------------
(* main: one run of the script                                             *)

\* an empty spreadsheet cell
Blank == [blank |-> TRUE]

\* what a user can put into a grid cell: a typed text, or nothing
EditValues == {[typed |-> "x"], NaN}

\* how to_excel writes a value: na_rep='' leaves the cell of a NaN empty
FormatCell(v) == IF v = NaN THEN Blank ELSE v

\* df.to_excel(writer, index=..., sheet_name=...) into a fresh workbook: one
\* sheet, the header in its first row, one row per data row under it; with
\* index=True a first column holds the row labels
to_excel(df, index, sheet_name) ==
    LET lead(x) == IF index THEN <<x>> ELSE <<>>
        header  == lead(Blank) \o df.columns
        row(r)  == lead(df.index[r]) \o
                   [p \in 1..Len(df.columns) |-> FormatCell(df.data[r][df.columns[p]])]
    IN  [sheets |-> << [name  |-> sheet_name,
                        cells |-> <<header>> \o [r \in 1..Len(df.data) |-> row(r)]] >>]

\* AgGrid(df, ...): the grid shows df unless the component already holds a
\* value sent back by the browser; grid_response['data'] is what it shows
AgGrid(df, value) == [data |-> IF value = None THEN df ELSE value]

\* pd.DataFrame(frame): a new frame of the same labels and cells
pd_DataFrame(df) == DataFrame(df.columns, df.index, df.data)

\* Excel_bytes with to_excel(writer, sheet_name='Combined Data'), index left
\* at its default True
Excel_bytes_with_index(updated_df) == to_excel(updated_df, TRUE, "Combined Data")

\* output = BytesIO(); updated_df.to_excel(writer, index=False,
\* sheet_name='Combined Data'); output.getvalue()
Excel_bytes(updated_df) == to_excel(updated_df, FALSE, "Combined Data")

\* st.download_button(...)
DownloadButton(data) ==
    [kind |-> "download_button",
     data |-> data,
     file_name |-> "combined_excel_files.xlsx",
     mime |-> "application/vnd.openxmlformats-officedocument.spreadsheetml.sheet"]

\* the three st.metric calls
Metrics(updated_df, files) ==
    [kind |-> "metrics",
     rows |-> Len(updated_df.data),
     columns |-> Len(updated_df.columns),
     files |-> Len(files)]

\* the page of a run with files uploaded, up to the Combine button
FilesPage(files) ==
    [placeholder |-> FALSE,
     file_list |-> [k \in 1..Len(files) |-> files[k].name],
     combine_button |-> TRUE,
     errors |-> <<>>, grid |-> None, metrics |-> None, download |-> None]

\* the page of the branch `if combined_df is not None`
CombinedPage(files, combined_df, value) ==
    LET grid_response == AgGrid(combined_df, value)
        updated_df    == pd_DataFrame(grid_response.data)
    IN  [FilesPage(files) EXCEPT
            !.grid = grid_response.data,
            !.metrics = Metrics(updated_df, files),
            !.download = DownloadButton(Excel_bytes(updated_df))]

\* Main with the grid and the download drawn whenever the files combine,
\* whether or not the button was clicked in this run
Main_unguarded(files, clicked, value) ==
    IF files # <<>>
    THEN LET call == combine_excel_files(files)
         IN  IF call.ret # None
             THEN CombinedPage(files, call.ret, value)
             ELSE [FilesPage(files) EXCEPT !.errors = call.errors]
    ELSE IdlePage

\* main(): the page one run of the script draws, given the value of the file
\* uploader, whether st.button returns True in this run, and the value the
\* grid component holds
Main(files, clicked, value) ==
    IF files # <<>>
    THEN IF clicked
         THEN LET call == combine_excel_files(files)
              IN  IF call.ret # None
                  THEN CombinedPage(files, call.ret, value)
                  ELSE [FilesPage(files) EXCEPT !.errors = call.errors]
         ELSE FilesPage(files)
    ELSE IdlePage

-----------------------------------------------------------------------------
(* Spec: the page under the user's interactions.  Streamlit reruns the     *)
(* script from the top on every interaction; st.button returns True only   *)
(* in the run its own click triggered; the value of a component that a run *)
(* does not draw is dropped at the end of that run.                        *)

\* the rerun after an interaction
Rerun(files, clicked, value) ==
    /\ page' = Main(files, clicked, value)
    /\ grid_value' = IF page'.grid = None THEN None ELSE value

Init ==
    /\ frame = Call(<<>>)
    /\ AppIdle

\* the user adds a file to the file uploader
AddFile ==
    /\ Len(uploaded_files) < MaxFiles
    /\ \E f \in Files :
          /\ uploaded_files' = Append(uploaded_files, f)
          /\ Rerun(uploaded_files', FALSE, grid_value)
    /\ event' = "upload"
    /\ edited' = None
    /\ downloaded' = None
    /\ UNCHANGED frame

\* the user removes a file from the file uploader
RemoveFile ==
    /\ \E k \in 1..Len(uploaded_files) :
          /\ uploaded_files' = SubSeq(uploaded_files, 1, k - 1)
                                  \o SubSeq(uploaded_files, k + 1, Len(uploaded_files))
          /\ Rerun(uploaded_files', FALSE, grid_value)
    /\ event' = "upload"
    /\ edited' = None
    /\ downloaded' = None
    /\ UNCHANGED frame

\* the user picks another option of the theme selectbox (the theme only
\* styles the grid and is not kept in the state)
SelectTheme ==
    /\ event' = "theme"
    /\ edited' = None
    /\ downloaded' = None
    /\ Rerun(uploaded_files, FALSE, grid_value)
    /\ UNCHANGED <<frame, uploaded_files>>

\* the user clicks "Combine Files"
ClickCombine ==
    /\ page.combine_button
    /\ event' = "combine"
    /\ edited' = None
    /\ downloaded' = None
    /\ Rerun(uploaded_files, TRUE, grid_value)
    /\ UNCHANGED <<frame, uploaded_files>>

\* the user changes one cell of the grid: the browser sends the grid's table
\* back as the component's value (update_mode=VALUE_CHANGED)
EditCell ==
    /\ page.grid # None
    /\ \E r \in 1..Len(page.grid.data) :
       \E c \in Range(page.grid.columns) :
       \E v \in EditValues \ {page.grid.data[r][c]} :
          LET value == [page.grid EXCEPT !.data[r][c] = v]
          IN  /\ edited' = value
              /\ event' = "edit"
              /\ downloaded' = None
              /\ Rerun(uploaded_files, FALSE, value)
    /\ UNCHANGED <<frame, uploaded_files>>

\* the user clicks the download button: the browser saves the data the
\* button was drawn with
ClickDownload ==
    /\ page.download # None
    /\ downloaded' = page.download
    /\ event' = "download"
    /\ edited' = None
    /\ Rerun(uploaded_files, FALSE, grid_value)
    /\ UNCHANGED <<frame, uploaded_files>>

Next == AddFile \/ RemoveFile \/ SelectTheme \/ ClickCombine \/ EditCell \/ ClickDownload

Spec == Init /\ [][Next]_vars

-----------------------------------------------------------------------------
(* Claims about combine_excel_files, checked under SpecCombine             *)

Done == frame.pc = "done"

Arg == frame.uploaded_files

AllParse == \A k \in 1..Len(Arg) : Parseable(Arg[k])

IsTable(x) == x.kind = "DataFrame"

\* the table file k parses to
Parsed(k) == read_excel(Arg[k])

\* rows(F1) + ... + rows(Fn)
RECURSIVE RowsUpTo(_)
RowsUpTo(n) == IF n = 0 THEN 0 ELSE RowsUpTo(n - 1) + Len(Parsed(n).data)

\* the position of the first file read_excel raises on, 0 if there is none
FirstBad ==
    IF AllParse THEN 0
    ELSE CHOOSE k \in 1..Len(Arg) :
            /\ ~Parseable(Arg[k])
            /\ \A j \in 1..(k - 1) : Parseable(Arg[j])

\* C1: a call on a non-empty sequence of files that all parse returns a table
\* with rows(F1) + ... + rows(Fn) rows.
C1_RowCount ==
    (Done /\ Arg # <<>> /\ AllParse) =>
        /\ IsTable(frame.ret)
        /\ Len(frame.ret.data) = RowsUpTo(Len(Arg))

C1_Witness ==
    /\ Done /\ AllParse /\ Len(Arg) = 2
    /\ Len(Parsed(1).data) = MaxRows
    /\ Len(Parsed(2).data) >= 1
    /\ IsTable(frame.ret)

\* where column c is first introduced: <<file, position in that file>>
FirstFile(c) ==
    CHOOSE k \in 1..Len(Arg) :
        /\ c \in Range(Parsed(k).columns)
        /\ \A j \in 1..(k - 1) : c \notin Range(Parsed(j).columns)

PosIn(c, columns) == CHOOSE p \in 1..Len(columns) : columns[p] = c

Earlier(c, d) ==
    \/ FirstFile(c) < FirstFile(d)
    \/ /\ FirstFile(c) = FirstFile(d)
       /\ PosIn(c, Parsed(FirstFile(c)).columns) < PosIn(d, Parsed(FirstFile(d)).columns)

\* C2: the columns of the combined table are the union by name of the input
\* tables' columns, each name once, in the first file's order followed by
\* every new name in the order the files, and the columns inside a file,
\* introduce it.
C2_Columns ==
    (Done /\ Arg # <<>> /\ AllParse) =>
        LET cols == frame.ret.columns
        IN  /\ IsTable(frame.ret)
            /\ \A a, b \in 1..Len(cols) : cols[a] = cols[b] => a = b
            /\ Range(cols) = UNION {Range(Parsed(k).columns) : k \in 1..Len(Arg)}
            /\ Len(cols) >= Len(Parsed(1).columns)
            /\ SubSeq(cols, 1, Len(Parsed(1).columns)) = Parsed(1).columns
            /\ \A a, b \in 1..Len(cols) : a < b => Earlier(cols[a], cols[b])

\* a later file shares a column with the first one and brings a new one,
\* listed before the shared one
C2_Witness ==
    /\ Done /\ AllParse /\ Len(Arg) = 2
    /\ Parsed(1).columns = <<"Name", "Age">>
    /\ Parsed(2).columns = <<"City", "Name">>
    /\ frame.ret.columns = <<"Name", "Age", "City">>

\* C3: the rows of the combined table are the rows of F1 in order, then those
\* of F2, and so on: the row at offset rows(F1)+...+rows(Fk-1)+i has the
\* values of row i of Fk in Fk's columns and the empty value in every other
\* combined column.
C3_Rows ==
    (Done /\ Arg # <<>> /\ AllParse) =>
        /\ IsTable(frame.ret)
        /\ \A k \in 1..Len(Arg) : \A r \in 1..Len(Parsed(k).data) :
              LET at == RowsUpTo(k - 1) + r
              IN  /\ at <= Len(frame.ret.data)
                  /\ DOMAIN frame.ret.data[at] = Range(frame.ret.columns)
                  /\ \A c \in Range(frame.ret.columns) :
                        frame.ret.data[at][c] =
                            IF c \in Range(Parsed(k).columns)
                            THEN Parsed(k).data[r][c]
                            ELSE NaN

\* two files with rows, each with a column the other lacks
C3_Witness ==
    /\ Done /\ AllParse /\ Len(Arg) = 2
    /\ Len(Parsed(1).data) >= 1 /\ Len(Parsed(2).data) >= 1
    /\ Arg[1].name # Arg[2].name
    /\ Range(Parsed(1).columns) \ Range(Parsed(2).columns) # {}
    /\ Range(Parsed(2).columns) \ Range(Parsed(1).columns) # {}
    /\ IsTable(frame.ret)
    /\ \E c \in Range(frame.ret.columns) : frame.ret.data[1][c] = NaN

\* C4: if a file of the sequence cannot be parsed the call returns None, not
\* a table of the files that did parse, and an error message is shown that
\* contains that file's name and the cause.
C4_ParseFailure ==
    (Done /\ ~AllParse) =>
        /\ frame.ret = None
        /\ \E m \in 1..Len(frame.errors) : \E k \in 1..Len(Arg) :
              /\ ~Parseable(Arg[k])
              /\ Arg[k].name \in Range(frame.errors[m])
              /\ Arg[k].cause \in Range(frame.errors[m])

\* a file with rows parsed before the bad one was met
C4_Witness ==
    /\ Done /\ Len(Arg) = 2
    /\ Parseable(Arg[1]) /\ Arg[1].nrows >= 1
    /\ ~Parseable(Arg[2])
    /\ frame.all_dfs # <<>>

\* C5: a call on the empty sequence returns None and shows no error.
C5_EmptyInput ==
    (Done /\ Arg = <<>>) => (frame.ret = None /\ frame.errors = <<>>)

C5_Witness == Done /\ Arg = <<>> /\ frame.reads = <<>>

\* C8: the files are read in input order up to the first one that fails to
\* parse: nothing after it is read, at most one error is shown per call, and
\* it names the first unparseable file.
C8_StopAtFirstFailure ==
    /\ frame.reads = [j \in 1..Len(frame.reads) |-> j]
    /\ Len(frame.errors) <= 1
    /\ FirstBad = 0 => frame.errors = <<>>
    /\ FirstBad # 0 => \A j \in Range(frame.reads) : j <= FirstBad
    /\ (Done /\ FirstBad # 0) =>
          /\ Len(frame.reads) = FirstBad
          /\ Len(frame.errors) = 1
          /\ frame.errors[1][2] = Arg[FirstBad].name
    /\ (Done /\ FirstBad = 0) => Len(frame.reads) = Len(Arg)

\* two unparseable files of different names: only the first is read
C8_Witness ==
    /\ Done /\ Len(Arg) = 2
    /\ ~Parseable(Arg[1]) /\ ~Parseable(Arg[2])
    /\ Arg[1].name # Arg[2].name
    /\ frame.reads = <<1>>

\* C9: the row labels of a returned table are 0, 1, ..., N-1 in row order.
C9_Index ==
    (Done /\ IsTable(frame.ret)) =>
        /\ Len(frame.ret.index) = Len(frame.ret.data)
        /\ \A j \in 1..Len(frame.ret.index) : frame.ret.index[j] = j - 1

\* both source tables have a row labelled 0
C9_Witness ==
    /\ Done /\ IsTable(frame.ret) /\ Len(Arg) = 2
    /\ Len(frame.all_dfs) = 2
    /\ frame.all_dfs[1].index # <<>> /\ frame.all_dfs[2].index # <<>>
    /\ frame.all_dfs[1].index[1] = frame.all_dfs[2].index[1]
    /\ frame.ret.index[Len(frame.ret.index)] = Len(frame.ret.data) - 1

-----------------------------------------------------------------------------
(* Claims about the page, checked under Spec                               *)

\* what combine_excel_files returns on the files now in the uploader
Combined == combine_excel_files(uploaded_files).ret

\* C6: after the user has combined files and edited a cell, the grid and the
\* download button are still on the page and the download holds the edited
\* table.
C6_EditedTableOffered ==
    event = "edit" =>
        /\ page.grid # None
        /\ page.download # None
        /\ page.download.data = Excel_bytes(edited)

\* C7: a download on offer is a workbook of one sheet named 'Combined Data':
\* its first row is the header of the table the grid returned, the rows under
\* it are that table's data rows in order (an empty value is an empty cell),
\* there is no column of row labels, and the file name is
\* combined_excel_files.xlsx.
C7_DownloadDocument ==
    page.download # None =>
        LET doc   == page.download.data
            table == page.grid
            cells == doc.sheets[1].cells
        IN  /\ page.download.file_name = "combined_excel_files.xlsx"
            /\ Len(doc.sheets) = 1
            /\ doc.sheets[1].name = "Combined Data"
            /\ Len(cells) = Len(table.data) + 1
            /\ \A r \in 1..Len(cells) : Len(cells[r]) = Len(table.columns)
            /\ cells[1] = table.columns
            /\ \A r \in 1..Len(table.data) : \A p \in 1..Len(table.columns) :
                  LET v == table.data[r][table.columns[p]]
                  IN  IF v = NaN THEN cells[r + 1][p] = Blank
                      ELSE cells[r + 1][p] = v

\* a download of two files' rows, one cell of it empty
C7_Witness ==
    /\ page.download # None
    /\ Len(uploaded_files) = 2
    /\ Len(page.grid.data) >= 2
    /\ Len(page.grid.columns) = 3
    /\ \E r \in 1..Len(page.grid.data) :
          /\ page.download.data.sheets[1].cells[r + 1][3] = Blank
          /\ page.download.data.sheets[1].cells[r + 1][1] # Blank

Shown == page.grid # None \/ page.metrics # None \/ page.download # None

\* C10: the grid, the metrics and the download are on the page only in a run
\* with a file uploaded, the Combine button clicked and a table returned by
\* combine_excel_files; a run whose combine failed, or with no file uploaded,
\* shows none of them, and with no file there is only the placeholder and no
\* Combine button.
C10_ShownOnlyWhenCombined ==
    /\ Shown => /\ uploaded_files # <<>>
                /\ event = "combine"
                /\ Combined # None
                /\ page.grid # None /\ page.metrics # None /\ page.download # None
    /\ (event = "combine" /\ Combined = None) => ~Shown
    /\ uploaded_files = <<>> => /\ ~Shown
                                /\ page.placeholder
                                /\ ~page.combine_button
    /\ uploaded_files # <<>> => (page.combine_button /\ ~page.placeholder)

\* a click on Combine with an unparseable file behind a parseable one: the
\* error is on the page, the grid is not
C10_Witness ==
    /\ event = "combine"
    /\ Len(uploaded_files) = 2
    /\ Parseable(uploaded_files[1]) /\ uploaded_files[1].nrows >= 1
    /\ ~Parseable(uploaded_files[2])
    /\ page.errors # <<>>
    /\ ~Shown
    /\ page.combine_button

=============================================================================
